---- MODULE Spec2Model ----
(***************************************************************************)
(* A model of lamda_pytorch/lamda_pytorch.py: the construction of the      *)
(* LaMDA module tree (lamda_model, LaMDA, Transformer, Attention,          *)
(* FeedForward, PreNorm, Residual, T5RelativePositionBias), the forward    *)
(* pass as the sequence of sub-module calls it makes, tensors as           *)
(* (value id, shape) pairs, and the T5 relative position bucketing on      *)
(* integer distances.                                                      *)
(***************************************************************************)
EXTENDS Integers, Sequences, FiniteSets, TLC

VARIABLES
    pc,           \* control position: "start", "built", "error", forward steps, "done"
    kwargs,       \* the keyword arguments of the call being modelled
    model,        \* the LaMDA object lamda_model returned (valid once built)
    bias,         \* a T5RelativePositionBias built on its own
    inp,          \* shape of the forward input, <<batch, seq_len>>
    x,            \* the running tensor of the forward pass: [id, shape]
    saved,        \* Residual.forward's argument x, kept for the addition
    at,           \* position in Transformer.forward: [layer, sub]
    trace,        \* the sub-module calls made so far, in order
    causal_mask,  \* Attention.forward's causal_mask of the last attention call
    attn_zero,    \* where the softmax output of that call is exactly zero
    rp_bucket,    \* T5RelativePositionBias.forward's rp_bucket of the last call
    fp            \* floating point outcomes of the last bucketing: [tie, undef]

vars == <<pc, kwargs, model, bias, inp, x, saved, at, trace, causal_mask,
          attn_zero, rp_bucket, fp>>

----------------------------------------------------------------------------
(* Bounds of the model.                                                    *)

MaxTokens == 2
MaxDim == 2
MaxDepth == 2
MaxDimHead == 2
MaxHeads == 2
MaxBatch == 2
MaxSeq == 4
MaxBuckets == 5
MaxDistance == 5

(* Program constants.                                                      *)

DefaultNumBuckets == 32
DefaultMaxDistance == 128
DefaultMult == 4

Min(a, b) == IF a <= b THEN a ELSE b
Max(a, b) == IF a >= b THEN a ELSE b

RECURSIVE Pow(_, _)
Pow(b, e) == IF e = 0 THEN 1 ELSE b * Pow(b, e - 1)

----------------------------------------------------------------------------
(* Primitive layers of the numeric runtime, by their sizes.                *)

\* nn.Linear(in_features, out_features, bias): a full precision affine layer.
Linear(in_features, out_features, has_bias) ==
    [in_features |-> in_features, out_features |-> out_features,
     has_bias |-> has_bias, dtype |-> "float32"]

\* nn.Embedding(num_embeddings, embedding_dim).
Embedding(num_embeddings, embedding_dim) ==
    [num_embeddings |-> num_embeddings, embedding_dim |-> embedding_dim]

\* nn.LayerNorm(dim): one parameter set, identified by the object id.
LayerNorm(id, dim) == [id |-> id, normalized_shape |-> dim]

\* quantize_dynamic's conversion of one nn.Linear to qint8; a layer that is
\* already a dynamically quantized Linear is no nn.Linear and is left alone.
QuantizeLinear(l) == [l EXCEPT !.dtype = "qint8"]

----------------------------------------------------------------------------
(* Constructors.                                                           *)

\* T5RelativePositionBias.__init__(scale, num_buckets, max_distance, heads)
T5RelativePositionBias(scale, num_buckets, max_distance, heads) ==
    [scale |-> scale,
     num_buckets |-> num_buckets,
     max_distance |-> max_distance,
     relative_attention_bias |-> Embedding(num_buckets, heads)]

\* A power base ** (half / 2), kept symbolic.
HalfPower(base, half) == [base |-> base, half |-> half]

\* Attention.__init__(dim, heads, dim_head): dim_head ** -0.5 raises
\* ZeroDivisionError for dim_head = 0.
AttentionRaises(dim, heads, dim_head) == dim_head = 0

\* Attention.__init__ with keys and values projected per head
\* (heads * dim_head * 2 features) instead of the one shared head.
MutAttentionKV(id, dim, heads, dim_head) ==
    LET inner_dim == heads * dim_head IN
    [cls |-> "Attention", id |-> id,
     heads |-> heads,
     scale |-> HalfPower(dim_head, -1),
     to_q |-> Linear(dim, inner_dim, FALSE),
     to_kv |-> Linear(dim, inner_dim * 2, FALSE),
     to_out |-> Linear(inner_dim, dim, TRUE),
     rel_pos_bias |-> T5RelativePositionBias(HalfPower(dim_head, 1),
                          DefaultNumBuckets, DefaultMaxDistance, heads)]

Attention(id, dim, heads, dim_head) ==
    LET inner_dim == heads * dim_head IN
    [cls |-> "Attention", id |-> id,
     heads |-> heads,
     scale |-> HalfPower(dim_head, -1),
     to_q |-> Linear(dim, inner_dim, FALSE),
     to_kv |-> Linear(dim, dim_head * 2, FALSE),
     to_out |-> Linear(inner_dim, dim, TRUE),
     rel_pos_bias |-> T5RelativePositionBias(HalfPower(dim_head, 1),
                          DefaultNumBuckets, DefaultMaxDistance, heads)]

\* FeedForward.__init__(dim, mult = 4): net[0] and net[3] are the Linears,
\* net[1] is SquaredRelu and net[2] is Dropout.
FeedForward(id, dim) ==
    LET inner_dim == dim * DefaultMult IN
    [cls |-> "FeedForward", id |-> id,
     net0 |-> Linear(dim, inner_dim * 2, TRUE),
     net3 |-> Linear(inner_dim * 2, dim, TRUE)]

\* quantize_dynamic(attn, {nn.Linear}, dtype = qint8): a copy (a new object)
\* with every nn.Linear in it converted.
QuantizeAttention(a, id) ==
    [a EXCEPT !.id = id,
              !.to_q = QuantizeLinear(@),
              !.to_kv = QuantizeLinear(@),
              !.to_out = QuantizeLinear(@)]

\* quantize_dynamic(ffn, {nn.Linear}, dtype = qint8)
QuantizeFeedForward(f, id) ==
    [f EXCEPT !.id = id,
              !.net0 = QuantizeLinear(@),
              !.net3 = QuantizeLinear(@)]

\* Residual(PreNorm(dim, fn)): the wrapper's own LayerNorm and a reference
\* to fn (the id of the wrapped object).
ResidualPreNorm(norm_id, dim, fn) ==
    [norm |-> LayerNorm(norm_id, dim), fn |-> fn.id]

\* The loop body with an Attention and a FeedForward object of its own for
\* every layer.
MutLayerOwnBlocks(k, dim, attn, ffn, id0) ==
    [attn |-> ResidualPreNorm(id0 + 2 * k - 1, dim, [attn EXCEPT !.id = @ + 100 * k]),
     ff |-> ResidualPreNorm(id0 + 2 * k, dim, [ffn EXCEPT !.id = @ + 100 * k])]

\* One pass of the loop of Transformer.__init__, for the k-th layer (from 1):
\* two new wrappers around the same attn and ffn.
Layer(k, dim, attn, ffn, id0) ==
    [attn |-> ResidualPreNorm(id0 + 2 * k - 1, dim, attn),
     ff |-> ResidualPreNorm(id0 + 2 * k, dim, ffn)]

\* Transformer.__init__(dim, depth, heads, dim_head, quantized); objects take
\* the ids 1.. in the order they are made. range(depth) is empty for
\* depth <= 0, and attn and ffn are then part of no layer: the fields attn
\* and ffn hold the objects the wrappers of the layers refer to by id.
Transformer(dim, depth, heads, dim_head, quantized) ==
    LET attn0 == Attention(1, dim, heads, dim_head)
        ffn0 == FeedForward(2, dim)
        attn == IF quantized THEN QuantizeAttention(attn0, 3) ELSE attn0
        ffn == IF quantized THEN QuantizeFeedForward(ffn0, 4) ELSE ffn0
        id0 == IF quantized THEN 4 ELSE 2
        n == Max(depth, 0)
    IN  [layers |-> [k \in 1..n |-> Layer(k, dim, attn, ffn, id0)],
         attn |-> attn,
         ffn |-> ffn,
         last_id |-> id0 + 2 * n]

\* LaMDA.__init__: the Transformer is called with dim_head and heads in the
\* positions of its parameters heads and dim_head.
LaMDA(num_tokens, dim, depth, dim_head, heads, quantized_transformer) ==
    LET t == Transformer(dim, depth, dim_head, heads, quantized_transformer) IN
    [num_tokens |-> num_tokens,
     dim |-> dim,
     token_emb |-> Embedding(num_tokens, dim),
     transformer |-> t,
     to_logits |-> [norm |-> LayerNorm(t.last_id + 1, dim),
                    linear |-> Linear(dim, num_tokens, TRUE)],
     last_id |-> t.last_id + 1]

\* LaMDA.__init__ raises exactly when Attention.__init__ does, with the
\* arguments as Transformer.__init__ receives them.
LaMDARaises(num_tokens, dim, depth, dim_head, heads) ==
    AttentionRaises(dim, dim_head, heads)

\* quantize_dynamic(model, {nn.Linear}, dtype = qint8): a deep copy of the
\* whole module tree (new objects, sharing kept) in which every nn.Linear
\* of every sub-module is converted.
QuantizeModel(m) ==
    LET off == m.last_id
        t == m.transformer
        wrap(w) == [w EXCEPT !.norm.id = @ + off, !.fn = @ + off]
    IN  [m EXCEPT
           !.transformer =
               [layers |-> [k \in DOMAIN t.layers |->
                              [attn |-> wrap(t.layers[k].attn),
                               ff |-> wrap(t.layers[k].ff)]],
                attn |-> QuantizeAttention(t.attn, t.attn.id + off),
                ffn |-> QuantizeFeedForward(t.ffn, t.ffn.id + off),
                last_id |-> t.last_id + off],
           !.to_logits = [norm |-> [@.norm EXCEPT !.id = @ + off],
                          linear |-> QuantizeLinear(@.linear)],
           !.last_id = @ + off]

\* lamda_model(quantized_logits, quantized_transformer), with the values of
\* CFG as arguments.
lamda_model(c, quantized_logits, quantized_transformer) ==
    LET m == LaMDA(c.num_tokens, c.dim, c.depth, c.dim_head, c.heads,
                   quantized_transformer)
    IN  IF quantized_logits THEN QuantizeModel(m) ELSE m

----------------------------------------------------------------------------
(* T5 relative position bucketing, on integer distances.                   *)

\* The largest t with (c/d)^t <= (a/b)^k, that is floor(k*log(a/b)/log(c/d)),
\* for a >= b >= 1 and c > d >= 1, searched upwards from t.
RECURSIVE FloorLogRatioFrom(_, _, _, _, _, _)
FloorLogRatioFrom(t, a, b, c, d, k) ==
    IF Pow(c, t + 1) * Pow(b, k) <= Pow(a, k) * Pow(d, t + 1)
    THEN FloorLogRatioFrom(t + 1, a, b, c, d, k)
    ELSE t

FloorLogRatio(a, b, c, d, k) == FloorLogRatioFrom(0, a, b, c, d, k)

\* Whether k*log(a/b)/log(c/d) is an integer other than 0: the float32
\* quotient of the two logarithms may then fall on either side of it.
IsTie(a, b, c, d, k) ==
    LET t == FloorLogRatio(a, b, c, d, k) IN
    t > 0 /\ Pow(c, t) * Pow(b, k) = Pow(a, k) * Pow(d, t)

\* |(log(a/b) / log(c/d) * k).long()| for a >= b, c > d: the truncation of
\* the float32 product; at a tie the outcome is the integer or one less.
TruncLogRatio(a, b, c, d, k, tie) ==
    FloorLogRatio(a, b, c, d, k) - (IF IsTie(a, b, c, d, k) THEN tie ELSE 0)

\* math.log(max_distance / max_exact) raises ZeroDivisionError for
\* max_exact = 0 and ValueError for a non-positive quotient.
BucketRaises(num_buckets, max_distance) ==
    LET max_exact == num_buckets \div 2 IN
    max_exact = 0 \/ max_distance <= 0

\* (torch.log(n.float() / max_exact) / math.log(max_distance / max_exact)
\*  * (num_buckets - max_exact)).long(), for max_exact >= 1 and
\* max_distance >= 1. f.tie[n] is the rounding outcome at a tie, f.undef the
\* outcome of converting an infinity or a NaN to long.
LogTerm(n, num_buckets, max_distance, f) ==
    LET max_exact == num_buckets \div 2
        k == num_buckets - max_exact
    IN  IF n = 0 \/ max_distance = max_exact THEN f.undef
        ELSE IF n = max_exact THEN 0
        ELSE IF max_distance > max_exact
        THEN IF n > max_exact
             THEN TruncLogRatio(n, max_exact, max_distance, max_exact, k, f.tie[n])
             ELSE 0 - TruncLogRatio(max_exact, n, max_distance, max_exact, k, f.tie[n])
        ELSE IF n > max_exact
             THEN 0 - TruncLogRatio(n, max_exact, max_exact, max_distance, k, f.tie[n])
             ELSE TruncLogRatio(max_exact, n, max_exact, max_distance, k, f.tie[n])

\* The bucketing without the torch.min against num_buckets - 1.
MutBucketNoClamp(relative_position, num_buckets, max_distance, f) ==
    LET n == Max(0 - relative_position, 0)
        max_exact == num_buckets \div 2
        is_small == n < max_exact
        val_if_large == max_exact + LogTerm(n, num_buckets, max_distance, f)
    IN  IF is_small THEN n ELSE val_if_large

\* The bucketing without the torch.where: the logarithmic value everywhere.
MutBucketNoWhere(relative_position, num_buckets, max_distance, f) ==
    LET n == Max(0 - relative_position, 0)
        max_exact == num_buckets \div 2
        val_if_large == max_exact + LogTerm(n, num_buckets, max_distance, f)
    IN  Min(val_if_large, num_buckets - 1)

\* The bucketing without max_exact added on the logarithmic branch.
MutBucketNoOffset(relative_position, num_buckets, max_distance, f) ==
    LET n == Max(0 - relative_position, 0)
        max_exact == num_buckets \div 2
        is_small == n < max_exact
        val_if_large == LogTerm(n, num_buckets, max_distance, f)
    IN  IF is_small THEN n ELSE Min(val_if_large, num_buckets - 1)

\* T5RelativePositionBias._relative_position_bucket, for one entry of
\* relative_position.
relative_position_bucket(relative_position, num_buckets, max_distance, f) ==
    LET n == Max(0 - relative_position, 0)
        max_exact == num_buckets \div 2
        is_small == n < max_exact
        val_if_large == max_exact + LogTerm(n, num_buckets, max_distance, f)
    IN  IF is_small THEN n ELSE Min(val_if_large, num_buckets - 1)

\* rp_bucket of T5RelativePositionBias.forward for qk_dots of trailing shape
\* (i, j): rel_pos[q][k] = k_pos - q_pos, positions from 0.
RpBucket(b, i, j, f) ==
    [q \in 0..(i - 1) |-> [k \in 0..(j - 1) |->
        relative_position_bucket(k - q, b.num_buckets, b.max_distance, f)]]

\* self.relative_attention_bias(rp_bucket) raises IndexError for an index
\* outside the embedding table.
LookupRaises(b, buckets) ==
    \E q \in DOMAIN buckets : \E k \in DOMAIN buckets[q] :
        buckets[q][k] < 0
        \/ buckets[q][k] >= b.relative_attention_bias.num_embeddings

----------------------------------------------------------------------------
(* Shapes of the tensor operations. A shape is a tuple of sizes; <<>> stands *)
(* for the operation having raised.                                        *)

Raised == <<>>

Last(s) == s[Len(s)]
ButLast(s) == SubSeq(s, 1, Len(s) - 1)

\* nn.Linear / quantized Linear applied to a tensor of shape s.
LinearShape(l, s) ==
    IF s = Raised \/ Last(s) # l.in_features THEN Raised
    ELSE ButLast(s) \o <<l.out_features>>

\* nn.LayerNorm applied to a tensor of shape s.
LayerNormShape(norm, s) ==
    IF s = Raised \/ Last(s) # norm.normalized_shape THEN Raised ELSE s

\* nn.Embedding applied to an index tensor of shape s.
EmbeddingShape(e, s) == s \o <<e.embedding_dim>>

\* The shape of a + b under broadcasting, for shapes of the same rank.
BroadcastShape(s1, s2) ==
    IF s1 = Raised \/ s2 = Raised \/ Len(s1) # Len(s2) THEN Raised
    ELSE IF \E d \in 1..Len(s1) : s1[d] # s2[d] /\ s1[d] # 1 /\ s2[d] # 1
    THEN Raised
    ELSE [d \in 1..Len(s1) |-> IF s1[d] = 1 THEN s2[d] ELSE s1[d]]

\* The mask with triu(j - i): the diagonal masked too.
MutCausalMaskDiagonal(i, j) ==
    [q \in 0..(i - 1) |-> [k \in 0..(j - 1) |-> k - q >= j - i]]

\* torch.ones((i, j), dtype = bool).triu(j - i + 1): entry (q, k) is kept
\* (True) where k - q >= j - i + 1.
CausalMask(i, j) ==
    [q \in 0..(i - 1) |-> [k \in 0..(j - 1) |-> k - q >= j - i + 1]]

\* Where sim.masked_fill(mask, -finfo.max).softmax(dim = -1) is exactly 0,
\* for finite sim: a filled entry underflows to 0 when its row holds an
\* entry that is not filled; a row filled everywhere comes out uniform.
SoftmaxZero(mask) ==
    [q \in DOMAIN mask |-> [k \in DOMAIN mask[q] |->
        mask[q][k] /\ \E k2 \in DOMAIN mask[q] : ~mask[q][k2]]]

\* Attention.forward on x of shape s = (b, n, dim): the shape returned.
AttentionShape(a, s) ==
    LET h == a.heads
        q0 == LinearShape(a.to_q, s)
        kv == LinearShape(a.to_kv, s)
    IN  IF q0 = Raised \/ kv = Raised \/ h = 0 THEN Raised
        ELSE IF Last(q0) % h # 0 THEN Raised
        ELSE
        LET kd == (Last(kv) + 1) \div 2          \* chunk(2): k
            vd == Last(kv) - kd                  \* chunk(2): v
            q == <<s[1], h, s[2], Last(q0) \div h>>
            sim == IF q[4] = kd THEN <<s[1], h, s[2], s[2]>> ELSE Raised
            bshape == <<1, a.rel_pos_bias.relative_attention_bias.embedding_dim,
                        s[2], s[2]>>
            biased == BroadcastShape(sim, bshape)
            out == IF biased = Raised THEN Raised
                   ELSE <<s[1], s[2], biased[2] * vd>>
        IN  LinearShape(a.to_out, out)

\* FeedForward.forward: Linear, SquaredRelu, Dropout, Linear.
FeedForwardShape(f, s) == LinearShape(f.net3, LinearShape(f.net0, s))

----------------------------------------------------------------------------
(* The calls of a forward pass, as records of the trace.                   *)

Event(op, layer, in, res, out) ==
    [op |-> op, layer |-> layer, in |-> in, res |-> res, out |-> out]

NoTensor == [id |-> 0, shape |-> Raised]
NoMatrix == <<>>
NoFp == [tie |-> <<>>, undef |-> 0]
NoBias == T5RelativePositionBias(0, 0, 0, 0)
NoKwargs == [num_tokens |-> 0, dim |-> 0, depth |-> 0, dim_head |-> 0,
             heads |-> 0, quantized_logits |-> FALSE,
             quantized_transformer |-> FALSE]
NoModel == [last_id |-> 0]
NoAt == [layer |-> 0, sub |-> "none"]

\* The outcomes of the float32 operations of one bucketing over distances
\* 0..MaxSeq-1: the rounding at each tie and the conversion of a non-finite
\* value to long.
FpOutcomes ==
    [tie : [0..(MaxSeq - 1) -> {0, 1}], undef : {0 - 1048576, 0, 1048576}]

Configs ==
    [num_tokens : 1..MaxTokens, dim : 1..MaxDim, depth : 0..MaxDepth,
     dim_head : 1..MaxDimHead, heads : 0..MaxHeads,
     quantized_logits : BOOLEAN, quantized_transformer : BOOLEAN]

Init ==
    /\ pc = "start"
    /\ kwargs = NoKwargs
    /\ model = NoModel
    /\ bias = NoBias
    /\ inp = <<>>
    /\ x = NoTensor
    /\ saved = NoTensor
    /\ at = NoAt
    /\ trace = <<>>
    /\ causal_mask = NoMatrix
    /\ attn_zero = NoMatrix
    /\ rp_bucket = NoMatrix
    /\ fp = NoFp

\* lamda_model(...) with CFG = c: returns the model, or raises.
LamdaModel ==
    /\ pc = "start"
    /\ \E c \in Configs :
        /\ kwargs' = c
        /\ IF LaMDARaises(c.num_tokens, c.dim, c.depth, c.dim_head, c.heads)
           THEN pc' = "error" /\ model' = NoModel
           ELSE /\ pc' = "built"
                /\ model' = lamda_model(c, c.quantized_logits,
                                        c.quantized_transformer)
    /\ UNCHANGED <<bias, inp, x, saved, at, trace, causal_mask, attn_zero,
                   rp_bucket, fp>>

\* T5RelativePositionBias(scale, num_buckets, max_distance, heads) on its own.
NewBias ==
    /\ pc = "start"
    /\ \E nb \in 0..MaxBuckets, md \in 0..MaxDistance :
        bias' = T5RelativePositionBias(1, nb, md, 1)
    /\ pc' = "bias_built"
    /\ UNCHANGED <<kwargs, model, inp, x, saved, at, trace, causal_mask,
                   attn_zero, rp_bucket, fp>>

\* T5RelativePositionBias.forward(qk_dots) for qk_dots of trailing shape (i, j).
BiasForward ==
    /\ pc = "bias_built"
    /\ \E i \in 1..MaxSeq, j \in 1..MaxSeq, f \in FpOutcomes :
        /\ inp' = <<i, j>>
        /\ IF BucketRaises(bias.num_buckets, bias.max_distance)
           THEN pc' = "bias_raised" /\ rp_bucket' = NoMatrix /\ fp' = NoFp
           ELSE /\ rp_bucket' = RpBucket(bias, i, j, f)
                /\ fp' = f
                /\ pc' = IF LookupRaises(bias, rp_bucket') THEN "bias_raised"
                         ELSE "bias_done"
    /\ UNCHANGED <<kwargs, model, bias, x, saved, at, trace, causal_mask,
                   attn_zero>>

----------------------------------------------------------------------------
(* LaMDA.forward, one action per sub-module call.                          *)

Layers == model.transformer.layers

\* The Residual(PreNorm(...)) wrapper Transformer.forward is at.
Wrapper == IF at.sub = "attn" THEN Layers[at.layer].attn ELSE Layers[at.layer].ff

Tensor(id, shape) == [id |-> id, shape |-> shape]

\* Where the forward pass continues after a call returned a tensor of shape s.
Continue(s, next) == IF s = Raised THEN "raised" ELSE next

\* Transformer.forward's loop: the position after the wrapper at p returned.
NextAt(p) ==
    IF p.sub = "attn" THEN [layer |-> p.layer, sub |-> "ff"]
    ELSE [layer |-> p.layer + 1, sub |-> "attn"]

\* After the loop of Transformer.forward comes self.to_logits.
AfterLayer(p) == IF p.layer > Len(Layers) THEN "final_norm" ELSE "norm"

\* A Residual that adds the normalized tensor.
MutResidualKeepsNormed(arg, normed) == normed

\* Residual.forward(x) returns self.fn(x) + x: the term added is its own
\* argument, not what PreNorm made of it.
ResidualKeeps(arg, normed) == arg

\* LaMDA.forward(x) for token indices of shape (b, n): x = self.token_emb(x),
\* then self.transformer(x) starts.
TokenEmb ==
    /\ pc = "built"
    /\ \E b \in 1..MaxBatch, n \in 1..MaxSeq :
        /\ inp' = <<b, n>>
        /\ x' = Tensor(1, EmbeddingShape(model.token_emb, <<b, n>>))
    /\ trace' = <<Event("token_emb", 0, 0, 0, 1)>>
    /\ at' = [layer |-> 1, sub |-> "attn"]
    /\ pc' = AfterLayer(at')
    /\ UNCHANGED <<kwargs, model, bias, saved, causal_mask, attn_zero,
                   rp_bucket, fp>>

\* Residual.forward calls PreNorm.forward, which applies self.norm(x).
Norm ==
    /\ pc = "norm"
    /\ LET out == Len(trace) + 1
           normed == Tensor(out, LayerNormShape(Wrapper.norm, x.shape))
       IN  /\ x' = normed
           /\ saved' = ResidualKeeps(x, normed)
           /\ trace' = Append(trace, Event("norm", at.layer, x.id, 0, out))
           /\ pc' = Continue(normed.shape, "fn")
    /\ UNCHANGED <<kwargs, model, bias, inp, at, causal_mask, attn_zero,
                   rp_bucket, fp>>

\* PreNorm.forward calls self.fn, here the Attention object: Attention.forward.
AttentionForward ==
    /\ pc = "fn"
    /\ Wrapper.fn = model.transformer.attn.id
    /\ LET a == model.transformer.attn
           out == Len(trace) + 1
           n == x.shape[2]
           buckets == RpBucket(a.rel_pos_bias, n, n, fp)
           shape == IF LookupRaises(a.rel_pos_bias, buckets) THEN Raised
                    ELSE AttentionShape(a, x.shape)
       IN  /\ rp_bucket' = buckets
           /\ causal_mask' = CausalMask(n, n)
           /\ attn_zero' = SoftmaxZero(causal_mask')
           /\ x' = Tensor(out, shape)
           /\ trace' = Append(trace, Event("Attention", at.layer, x.id, 0, out))
           /\ pc' = Continue(shape, "add")
    /\ UNCHANGED <<kwargs, model, bias, inp, saved, at, fp>>

\* PreNorm.forward calls self.fn, here the FeedForward object.
FeedForwardForward ==
    /\ pc = "fn"
    /\ Wrapper.fn = model.transformer.ffn.id
    /\ LET out == Len(trace) + 1
           shape == FeedForwardShape(model.transformer.ffn, x.shape)
       IN  /\ x' = Tensor(out, shape)
           /\ trace' = Append(trace, Event("FeedForward", at.layer, x.id, 0, out))
           /\ pc' = Continue(shape, "add")
    /\ UNCHANGED <<kwargs, model, bias, inp, saved, at, causal_mask,
                   attn_zero, rp_bucket, fp>>

\* Residual.forward adds x to what self.fn returned; Transformer.forward
\* goes on to the next wrapper.
Add ==
    /\ pc = "add"
    /\ LET out == Len(trace) + 1
           shape == BroadcastShape(x.shape, saved.shape)
       IN  /\ x' = Tensor(out, shape)
           /\ trace' = Append(trace, Event("add", at.layer, x.id, saved.id, out))
           /\ at' = NextAt(at)
           /\ pc' = Continue(shape, AfterLayer(at'))
    /\ UNCHANGED <<kwargs, model, bias, inp, saved, causal_mask, attn_zero,
                   rp_bucket, fp>>

\* self.to_logits[0]: the final nn.LayerNorm(dim).
FinalNorm ==
    /\ pc = "final_norm"
    /\ LET out == Len(trace) + 1
           shape == LayerNormShape(model.to_logits.norm, x.shape)
       IN  /\ x' = Tensor(out, shape)
           /\ trace' = Append(trace, Event("final_norm", 0, x.id, 0, out))
           /\ pc' = Continue(shape, "final_linear")
    /\ UNCHANGED <<kwargs, model, bias, inp, saved, at, causal_mask,
                   attn_zero, rp_bucket, fp>>

\* self.to_logits[1]: nn.Linear(dim, num_tokens); LaMDA.forward returns.
ToLogits ==
    /\ pc = "final_linear"
    /\ LET out == Len(trace) + 1
           shape == LinearShape(model.to_logits.linear, x.shape)
       IN  /\ x' = Tensor(out, shape)
           /\ trace' = Append(trace, Event("to_logits", 0, x.id, 0, out))
           /\ pc' = Continue(shape, "done")
    /\ UNCHANGED <<kwargs, model, bias, inp, saved, at, causal_mask,
                   attn_zero, rp_bucket, fp>>

Next ==
    \/ LamdaModel
    \/ NewBias
    \/ BiasForward
    \/ TokenEmb
    \/ Norm
    \/ AttentionForward
    \/ FeedForwardForward
    \/ Add
    \/ FinalNorm
    \/ ToLogits

Spec == Init /\ [][Next]_vars

----------------------------------------------------------------------------
(* Properties.                                                             *)

ModelPcs == {"built", "norm", "fn", "add", "final_norm", "final_linear",
             "done", "raised"}
BiasPcs == {"bias_built", "bias_done", "bias_raised"}

\* All of num_tokens, dim, depth, dim_head, heads positive.
ValidConfig(c) ==
    c.num_tokens > 0 /\ c.dim > 0 /\ c.depth > 0 /\ c.dim_head > 0 /\ c.heads > 0

\* num_buckets even and >= 2, max_distance > num_buckets / 2.
ValidBias(b) ==
    b.num_buckets % 2 = 0 /\ b.num_buckets >= 2
    /\ 2 * b.max_distance > b.num_buckets

\* The T5RelativePositionBias whose rp_bucket the state holds.
TheBias == IF pc \in BiasPcs THEN bias ELSE model.transformer.attn.rel_pos_bias

\* The distance max(-(k - q), 0) of key position k from query position q.
Dist(q, k) == IF q > k THEN q - k ELSE 0

\* C1: for a valid configuration and an input of shape (batch, seq_len), the
\* forward pass never raises, the tensor has shape (batch, seq_len, dim)
\* after the embedding and after every sub-module call of every layer, and
\* what LaMDA.forward returns has shape (batch, seq_len, num_tokens).
C1_ForwardShape ==
    (pc \in ModelPcs \ {"built"} /\ ValidConfig(kwargs)) =>
        /\ pc # "raised"
        /\ pc \in {"norm", "fn", "add", "final_norm", "final_linear"} =>
               x.shape = <<inp[1], inp[2], kwargs.dim>>
        /\ pc = "done" => x.shape = <<inp[1], inp[2], kwargs.num_tokens>>

C1_Witness ==
    /\ pc = "done" /\ ValidConfig(kwargs)
    /\ kwargs.depth = 2 /\ kwargs.heads # kwargs.dim_head
    /\ kwargs.num_tokens # kwargs.dim
    /\ inp = <<2, 3>> /\ x.shape = <<2, 3, kwargs.num_tokens>>

\* C2: in Attention.forward the masked key positions of query position q
\* are exactly the k > q, each of them gets attention weight zero, and no
\* k <= q (q itself included) is masked.
C2_CausalMask ==
    \A q \in DOMAIN causal_mask : \A k \in DOMAIN causal_mask[q] :
        /\ causal_mask[q][k] <=> k > q
        /\ k > q => attn_zero[q][k]
        /\ k <= q => ~causal_mask[q][k]

C2_Witness ==
    /\ pc = "add"
    /\ DOMAIN causal_mask = 0..3
    /\ causal_mask[0][1] /\ attn_zero[2][3] /\ ~causal_mask[3][3]

\* C3: every distance n below max_exact = num_buckets // 2 gets the bucket n;
\* n = 0 gets bucket 0 whatever the logarithmic branch computed for it.
C3_ExactRegime ==
    \A q \in DOMAIN rp_bucket : \A k \in DOMAIN rp_bucket[q] :
        Dist(q, k) < TheBias.num_buckets \div 2 =>
            rp_bucket[q][k] = Dist(q, k)

C3_Witness ==
    /\ pc = "bias_done"
    /\ bias.num_buckets = 4
    /\ fp.undef = 1048576
    /\ inp = <<3, 3>>
    /\ rp_bucket[0][0] = 0 /\ rp_bucket[0][1] = 0 /\ rp_bucket[1][0] = 1

\* C4: for even num_buckets >= 2 and max_distance > num_buckets / 2 every
\* bucket lies in 0..num_buckets-1, and every distance n >= max_distance
\* gets the last bucket num_buckets - 1.
C4_RangeAndSaturation ==
    (DOMAIN rp_bucket # {} /\ ValidBias(TheBias)) =>
        \A q \in DOMAIN rp_bucket : \A k \in DOMAIN rp_bucket[q] :
            /\ rp_bucket[q][k] \in 0..(TheBias.num_buckets - 1)
            /\ Dist(q, k) >= TheBias.max_distance =>
                   rp_bucket[q][k] = TheBias.num_buckets - 1

C4_Witness ==
    /\ pc = "bias_done" /\ ValidBias(bias)
    /\ bias.num_buckets = 4 /\ bias.max_distance = 3
    /\ fp.tie[3] = 1
    /\ inp = <<4, 4>>
    /\ rp_bucket[3][0] = 3

\* C5: the bucket is monotonic non-decreasing in the distance, across the
\* boundary n = max_exact too, whenever max_distance > max_exact >= 1 (which
\* every even num_buckets >= 2 with max_distance > num_buckets / 2 satisfies).
C5_Monotonic ==
    (DOMAIN rp_bucket # {} /\ TheBias.num_buckets \div 2 >= 1
       /\ TheBias.max_distance > TheBias.num_buckets \div 2) =>
        \A q1 \in DOMAIN rp_bucket, q2 \in DOMAIN rp_bucket :
            \A k1 \in DOMAIN rp_bucket[q1], k2 \in DOMAIN rp_bucket[q2] :
                Dist(q1, k1) <= Dist(q2, k2) =>
                    rp_bucket[q1][k1] <= rp_bucket[q2][k2]

C5_Witness ==
    /\ pc = "bias_done" /\ ValidBias(bias)
    /\ bias.num_buckets = 4 /\ bias.max_distance = 4
    /\ inp = <<4, 4>>
    /\ rp_bucket[1][0] = 1 /\ rp_bucket[2][0] = 2 /\ rp_bucket[3][0] = 3

\* The Linears inside the transformer of the built model.
TransformerLinears ==
    LET t == model.transformer IN
    {t.attn.to_q, t.attn.to_kv, t.attn.to_out, t.ffn.net0, t.ffn.net3}

\* C6: quantized_logits converts only the final vocabulary projection; the
\* Linears inside the transformer are quantized if and only if
\* quantized_transformer is set.
C6_LogitsOnly ==
    (pc = "built" /\ ValidConfig(kwargs)) =>
        /\ (model.to_logits.linear.dtype = "qint8") <=> kwargs.quantized_logits
        /\ \A l \in TransformerLinears :
               (l.dtype = "qint8") <=> kwargs.quantized_transformer

\* C7: no construction with invalid hyperparameters succeeds: a model that
\* was built has a valid configuration, and a relative position bias that
\* was built (and may since have produced buckets) has valid parameters.
C7_InvalidRejected ==
    /\ pc \in ModelPcs => ValidConfig(kwargs)
    /\ pc \in BiasPcs => ValidBias(bias)

\* C8: a model built with heads = H and dim_head = D has attention with H
\* query heads of width D: to_q has H*D outputs, to_kv has 2*D outputs, the
\* queries are scaled by D^-0.5, the bias by D^0.5, and the bias table
\* holds H values per bucket.
C8_HeadsAndWidth ==
    (pc = "built" /\ ValidConfig(kwargs)) =>
        LET a == model.transformer.attn IN
        /\ a.heads = kwargs.heads
        /\ a.to_q.out_features = kwargs.heads * kwargs.dim_head
        /\ a.to_kv.out_features = 2 * kwargs.dim_head
        /\ a.scale = HalfPower(kwargs.dim_head, -1)
        /\ a.rel_pos_bias.scale = HalfPower(kwargs.dim_head, 1)
        /\ a.rel_pos_bias.relative_attention_bias.embedding_dim = kwargs.heads

\* The LayerNorm objects of the PreNorm wrappers of the built model.
WrapperNorms ==
    {Layers[k].attn.norm.id : k \in DOMAIN Layers}
        \cup {Layers[k].ff.norm.id : k \in DOMAIN Layers}

\* C9: all layers of a built model wrap one and the same Attention object
\* and one and the same FeedForward object, and the 2 * depth PreNorm
\* wrappers hold 2 * depth different LayerNorm objects.
C9_SharedBlocks ==
    pc \in ModelPcs =>
        /\ Len(Layers) = kwargs.depth
        /\ \A k1 \in DOMAIN Layers, k2 \in DOMAIN Layers :
               /\ Layers[k1].attn.fn = Layers[k2].attn.fn
               /\ Layers[k1].ff.fn = Layers[k2].ff.fn
               /\ Layers[k1].attn.fn # Layers[k2].ff.fn
        /\ Cardinality(WrapperNorms) = 2 * kwargs.depth
        /\ model.to_logits.norm.id \notin WrapperNorms

C9_Witness ==
    /\ pc = "built"
    /\ kwargs.depth = 2
    /\ kwargs.quantized_logits /\ kwargs.quantized_transformer
    /\ Layers[1].attn.fn = Layers[2].attn.fn
    /\ Layers[1].attn.norm.id # Layers[2].attn.norm.id

\* The p-th call of a forward pass through a model of depth d: the
\* embedding, then per layer norm, Attention, add, norm, FeedForward, add,
\* then the final norm and the projection. Every call takes the result of
\* the call before it; an add also takes the input of the norm two calls
\* before it.
ExpectedCall(p, d) ==
    LET r == (p - 2) % 6
        l == (p - 2) \div 6 + 1
    IN  IF p = 1 THEN Event("token_emb", 0, 0, 0, 1)
        ELSE IF p = 6 * d + 2 THEN Event("final_norm", 0, p - 1, 0, p)
        ELSE IF p = 6 * d + 3 THEN Event("to_logits", 0, p - 1, 0, p)
        ELSE IF r \in {0, 3} THEN Event("norm", l, p - 1, 0, p)
        ELSE IF r = 1 THEN Event("Attention", l, p - 1, 0, p)
        ELSE IF r = 4 THEN Event("FeedForward", l, p - 1, 0, p)
        ELSE Event("add", l, p - 1, p - 3, p)

\* C10: the calls of a forward pass through a depth-d model come in the
\* fixed order of ExpectedCall, each layer once, and the pass returns after
\* exactly 6 * d + 3 calls; the term an add takes is the input of the norm.
C10_CallOrder ==
    pc \in ModelPcs \ {"built"} =>
        /\ \A p \in 1..Len(trace) : trace[p] = ExpectedCall(p, kwargs.depth)
        /\ pc = "done" <=> Len(trace) = 6 * kwargs.depth + 3
        /\ x.id = Len(trace)

C10_Witness ==
    /\ pc = "done"
    /\ kwargs.depth = 2
    /\ Len(trace) = 15
    /\ trace[10].op = "add" /\ trace[10].res = 7 /\ trace[10].layer = 2

====
